---- MODULE Spec2Model ----
(***************************************************************************)
(* A model of the organisation service (organisation.service.ts over       *)
(* organisation.repository.ts) and of the login handler (auth.routes.ts    *)
(* with the jwt plugin).  Every repository call is one atomic step of the  *)
(* document store.  The synchronous code that follows an await is part of  *)
(* that await's step, except where it reads the clock: update's            *)
(* new Date() is a step of its own, since other requests may reach the     *)
(* store between the find and the continuation that stamps the payload.    *)
(* A service call's outcome is observed in ret in the state its returning  *)
(* step leads to; the next step of any request clears it.                  *)
(***************************************************************************)
EXTENDS Integers, Sequences, FiniteSets, TLC

VARIABLES
    store,      \* the tenants collection: ObjectId -> document
    nextId,     \* the next ObjectId insertOne generates
    clock,      \* the last value new Date() returned
    pc,         \* each service call's position
    op,         \* each service call's arguments: [kind, id, input]
    loc,        \* each service call's local variables
    ret,        \* the call that has just returned, and its outcome
    deletes,    \* per ObjectId, the delete calls that have succeeded
    http,       \* each request's place in its route: hook, handler, service
    users,      \* the users collection: ObjectId -> document
    config,     \* fastify.config: the validated environment
    lpc,        \* the login handler's position
    lreq,       \* the login request body
    luser,      \* the login handler's local variable user
    lloc,       \* the login handler's loginTime and signed tokens
    lres,       \* the login handler's reply
    lwrites     \* writes the current login has made to the users collection

orgVars == <<store, nextId, clock, pc, op, loc, ret, deletes, http>>
authVars == <<users, config, lpc, lreq, luser, lloc, lres, lwrites>>
vars == <<store, nextId, clock, pc, op, loc, ret, deletes, http,
          users, config, lpc, lreq, luser, lloc, lres, lwrites>>

----------------------------------------------------------------------------
(* Bounds: concurrent requests, ObjectIds ever generated, clock values *)

NumReq == 2
MaxIds == 2
MaxClock == 1

Reqs == 1..NumReq
Oids == 1..MaxIds

----------------------------------------------------------------------------
(* Strings are sequences of characters *)

IsSpace(c) == c = " "

toLowerCaseChar(c) ==
    CASE c = "A" -> "a"
      [] c = "B" -> "b"
      [] c = "U" -> "u"
      [] c = "X" -> "x"
      [] OTHER -> c

toLowerCase(s) == [i \in 1..Len(s) |-> toLowerCaseChar(s[i])]

RECURSIVE trimStart(_)
trimStart(s) ==
    IF s # <<>> /\ IsSpace(Head(s)) THEN trimStart(Tail(s)) ELSE s

RECURSIVE trimEnd(_)
trimEnd(s) ==
    IF s # <<>> /\ IsSpace(s[Len(s)])
    THEN trimEnd(SubSeq(s, 1, Len(s) - 1))
    ELSE s

trim(s) == trimEnd(trimStart(s))

\* a slug that is trimmed and not lowercased
normaliseSlug_NoLowerCase(slug) == trim(slug)

normaliseSlug(slug) == toLowerCase(trim(slug))

normaliseName(name) == trim(name)

----------------------------------------------------------------------------
(* Identities and dates as they cross the service boundary *)

toHexString(oid) == <<"hex", oid>>

toISOString(date) == <<"iso", date>>

\* the id strings a caller may supply: the well-formed ones, assigned or not,
\* and a malformed one
MalformedId == <<"not-a-valid-id-format">>
IdStrings == {toHexString(i) : i \in Oids} \cup {MalformedId}

ObjectIdIsValid(id) == id[1] = "hex"

ObjectIdOf(id) == id[2]

toOrganisationResponse(organisation) ==
    [id |-> toHexString(organisation._id),
     name |-> organisation.name,
     slug |-> organisation.slug,
     status |-> organisation.status,
     createdAt |-> toISOString(organisation.createdAt),
     updatedAt |-> toISOString(organisation.updatedAt)]

----------------------------------------------------------------------------
(* The inputs of the service calls.  An optional field that is undefined   *)
(* is a field the input record does not have.                              *)

\* raw slugs: two that trim and lowercase to the same slug, and another
SlugInputs == {<<"a">>, <<" ", "A">>, <<"b">>}

Has(input, f) == f \in DOMAIN input

\* create's inputs: name and slug are required
CreateInputs(names, slugs, statuses) ==
    [name : names, slug : slugs] \cup [name : names, slug : slugs, status : statuses]

\* update's inputs: every field is optional
UpdateInputs(names, slugs, statuses) ==
    {<<>>}
        \cup [name : names] \cup [slug : slugs] \cup [status : statuses]
        \cup [name : names, slug : slugs]
        \cup [name : names, status : statuses]
        \cup [slug : slugs, status : statuses]
        \cup [name : names, slug : slugs, status : statuses]

----------------------------------------------------------------------------
(* OrganisationRepository: each operator is one atomic storage operation.  *)
(* A find returns the set of documents findOne may return: the empty set   *)
(* stands for null.                                                        *)

findById(st, id) == {st[i] : i \in {j \in DOMAIN st : j = id}}

findBySlug(st, slug) == {st[i] : i \in {j \in DOMAIN st : st[j].slug = slug}}

\* find(filter): the documents of every status, or of the status given
matches(st, filter) ==
    {i \in DOMAIN st : Has(filter, "status") => st[i].status = filter.status}

\* a sort by createdAt ascending
sortedByCreatedAtDesc_Ascending(st, ids) ==
    {order \in [1..Cardinality(ids) -> ids] :
        /\ \A k, l \in DOMAIN order : k # l => order[k] # order[l]
        /\ \A k, l \in DOMAIN order :
            k < l => st[order[k]].createdAt <= st[order[l]].createdAt}

\* sort({ createdAt: -1 }): documents of equal createdAt come in any order
sortedByCreatedAtDesc(st, ids) ==
    {order \in [1..Cardinality(ids) -> ids] :
        /\ \A k, l \in DOMAIN order : k # l => order[k] # order[l]
        /\ \A k, l \in DOMAIN order :
            k < l => st[order[k]].createdAt >= st[order[l]].createdAt}

\* findAll(status): the arrays toArray() may return
findAll(st, filter) ==
    {[k \in DOMAIN order |-> st[order[k]]] :
        order \in sortedByCreatedAtDesc(st, matches(st, filter))}

\* insertOne(payload): the document stored under the generated _id
insertOne(id, payload) ==
    [_id |-> id,
     name |-> payload.name,
     slug |-> payload.slug,
     status |-> payload.status,
     createdAt |-> payload.createdAt,
     updatedAt |-> payload.updatedAt]

\* an insert into a collection with a unique index on slug
repositoryCreate_UniqueSlug(st, id, payload) ==
    IF \E i \in DOMAIN st : st[i].slug = payload.slug
    THEN st
    ELSE [i \in DOMAIN st \cup {id} |->
            IF i = id THEN insertOne(id, payload) ELSE st[i]]

repositoryCreate(st, id, payload) ==
    [i \in DOMAIN st \cup {id} |-> IF i = id THEN insertOne(id, payload) ELSE st[i]]

\* a write that puts the status back to active when the payload gives none
applySet_StatusReset(doc, payload) ==
    [f \in DOMAIN doc \cup DOMAIN payload |->
        IF f \in DOMAIN payload THEN payload[f]
        ELSE IF f = "status" THEN "active" ELSE doc[f]]

\* $set: payload's fields replace the document's
applySet(doc, payload) ==
    [f \in DOMAIN doc \cup DOMAIN payload |->
        IF f \in DOMAIN payload THEN payload[f] ELSE doc[f]]

\* a findOneAndUpdate that inserts a document when none has the id
updateById_Upsert(st, id, payload) ==
    [i \in DOMAIN st \cup {id} |->
        applySet(IF i \in DOMAIN st THEN st[i]
                 ELSE [_id |-> id, name |-> <<>>, slug |-> <<>>, status |-> "active",
                       createdAt |-> 0, updatedAt |-> 0],
                 IF i = id THEN payload ELSE <<>>)]

\* findOneAndUpdate({ _id: id }, { $set: payload }): never inserts
updateById(st, id, payload) ==
    IF id \in DOMAIN st
    THEN [st EXCEPT ![id] = applySet(st[id], payload)]
    ELSE st

\* deleteOne({ _id: id })
deleteById(st, id) == [i \in DOMAIN st \ {id} |-> st[i]]

\* a delete that reports one deleted document whatever deleteOne found
deletedCount_Ignored(st, id) == 1

deletedCount(st, id) == Cardinality(DOMAIN st \cap {id})

----------------------------------------------------------------------------
(* new Date(): the clock never runs backwards; tmax caps it *)

DateNow(tmax) == {t \in clock..(clock + 1) : t <= tmax}

----------------------------------------------------------------------------
(* Outcomes of a service call *)

NoOp == [kind |-> "none"]
NoLoc == [at |-> "none"]
NoRet == [kind |-> "none"]
Ok(view) == [kind |-> "ok", view |-> view]
OkVoid == [kind |-> "ok"]
OrganisationNotFoundError ==
    [kind |-> "NotFound", message |-> "Organisation not found"]

\* a malformed id reported as a missing record
InvalidOrganisationIdError_AsNotFound == OrganisationNotFoundError

InvalidOrganisationIdError ==
    [kind |-> "InvalidId", message |-> "Invalid organisation id"]
OrganisationSlugTakenError ==
    [kind |-> "SlugTaken", message |-> "Organisation slug already exists"]

\* at: the await the call returned from, "idle" when it had reached none
Returned(p, call, at, outcome) ==
    [kind |-> "returned", p |-> p, call |-> call, at |-> at, outcome |-> outcome]

\* requests are interchangeable: the lowest idle one takes the next call
Idle(p) == pc[p] = "idle" /\ \A q \in Reqs : q < p => pc[q] # "idle"

\* A service method is called either directly, by a caller that holds the
\* service, or by the handler of its route once the onRequest hook has let the
\* request through.
Direct == [stage |-> "direct"]
NoHttp == [stage |-> "none"]

Admitted(p, endpoint) ==
    \/ http[p] = Direct /\ Idle(p)
    \/ http[p].stage = "handler" /\ http[p].endpoint = endpoint

InService(h) == IF h = Direct THEN h ELSE [h EXCEPT !.stage = "service"]

Replied(h) == IF h = Direct THEN h ELSE NoHttp

\* the call starts and reaches its first await
Begin(p, call, label, locals) ==
    /\ pc' = [pc EXCEPT ![p] = label]
    /\ op' = [op EXCEPT ![p] = call]
    /\ loc' = [loc EXCEPT ![p] = locals]
    /\ http' = [http EXCEPT ![p] = InService(@)]
    /\ ret' = NoRet

\* the call throws before its first await
Reject(p, call, outcome) ==
    /\ ret' = Returned(p, call, "idle", outcome)
    /\ http' = [http EXCEPT ![p] = Replied(@)]
    /\ UNCHANGED <<pc, op, loc>>

Goto(p, label, locals) ==
    /\ pc' = [pc EXCEPT ![p] = label]
    /\ loc' = [loc EXCEPT ![p] = locals]
    /\ ret' = NoRet
    /\ UNCHANGED <<op, http>>

Finish(p, outcome) ==
    /\ pc' = [pc EXCEPT ![p] = "idle"]
    /\ op' = [op EXCEPT ![p] = NoOp]
    /\ loc' = [loc EXCEPT ![p] = NoLoc]
    /\ ret' = Returned(p, op[p], pc[p], outcome)
    /\ http' = [http EXCEPT ![p] = Replied(@)]

----------------------------------------------------------------------------
(* OrganisationService.create *)

\* a default status of inactive
statusOrDefault_Inactive(input) ==
    IF Has(input, "status") THEN input.status ELSE "inactive"

statusOrDefault(input) == IF Has(input, "status") THEN input.status ELSE "active"

organisationToCreate(input, name, slug, now) ==
    [name |-> name,
     slug |-> slug,
     status |-> statusOrDefault(input),
     createdAt |-> now,
     updatedAt |-> now]

\* a create that makes no use of what findBySlug returned
createSlugTaken_Unchecked(existing) == FALSE

\* if (existing) throw new OrganisationSlugTakenError()
createSlugTaken(existing) == existing # {}

\* creates in flight each take one of the MaxIds identities
CreatesInFlight == Cardinality({q \in Reqs : pc[q] \in {"c_findBySlug", "c_create"}})

CreateCall(p, inputs, tmax) ==
    /\ UNCHANGED authVars
    /\ Admitted(p, "POST /")
    /\ (nextId - 1) + CreatesInFlight < MaxIds
    /\ \E input \in inputs, now \in DateNow(tmax) :
        /\ clock' = now
        /\ Begin(p, [kind |-> "create", input |-> input], "c_findBySlug",
                 [now |-> now,
                  name |-> normaliseName(input.name),
                  slug |-> normaliseSlug(input.slug)])
    /\ UNCHANGED <<store, nextId, deletes>>

CreateFindBySlug(p) ==
    /\ UNCHANGED authVars
    /\ pc[p] = "c_findBySlug"
    /\ IF createSlugTaken(findBySlug(store, loc[p].slug))
       THEN Finish(p, OrganisationSlugTakenError)
       ELSE Goto(p, "c_create", loc[p])
    /\ UNCHANGED <<store, nextId, clock, deletes>>

CreateInsert(p) ==
    /\ UNCHANGED authVars
    /\ pc[p] = "c_create"
    /\ LET payload == organisationToCreate(op[p].input, loc[p].name,
                                           loc[p].slug, loc[p].now) IN
        /\ store' = repositoryCreate(store, nextId, payload)
        /\ Finish(p, Ok(toOrganisationResponse(insertOne(nextId, payload))))
    /\ nextId' = nextId + 1
    /\ UNCHANGED <<clock, deletes>>

----------------------------------------------------------------------------
(* OrganisationService.update *)

\* the payload's fields taken from the input; updatedAt is added last
updatePayload(input) ==
    [f \in DOMAIN input |->
        CASE f = "name" -> normaliseName(input.name)
          [] f = "slug" -> normaliseSlug(input.slug)
          [] OTHER -> input[f]]

\* an update that makes the uniqueness check whenever a slug is supplied
slugChanged_Always(input, organisation) == Has(input, "slug")

\* if (slug !== organisation.slug): the uniqueness check is made
slugChanged(input, organisation) ==
    Has(input, "slug") /\ normaliseSlug(input.slug) # organisation.slug

\* an update that takes a slug whoever holds it
updateSlugTaken_Never(existing, organisation) == FALSE

\* existing && !existing._id.equals(organisation._id)
updateSlugTaken(existing, organisation) == existing._id # organisation._id

\* an update that stamps updatedAt only when some field is supplied
withUpdatedAt_UnlessEmpty(payload, now) ==
    [f \in DOMAIN payload \cup (IF payload = <<>> THEN {} ELSE {"updatedAt"}) |->
        IF f = "updatedAt" THEN now ELSE payload[f]]

withUpdatedAt(payload, now) ==
    [f \in DOMAIN payload \cup {"updatedAt"} |->
        IF f = "updatedAt" THEN now ELSE payload[f]]

\* the fields of the loaded document update reads afterwards
loaded(organisation) == [_id |-> organisation._id, slug |-> organisation.slug]

UpdateCall(p, inputs) ==
    /\ UNCHANGED authVars
    /\ Admitted(p, "PATCH /:id")
    /\ \E id \in IdStrings, input \in inputs :
        LET call == [kind |-> "update", id |-> id, input |-> input] IN
        IF ObjectIdIsValid(id)
        THEN Begin(p, call, "u_findById", NoLoc)
        ELSE Reject(p, call, InvalidOrganisationIdError)
    /\ UNCHANGED <<store, nextId, clock, deletes>>

UpdateFindById(p) ==
    /\ UNCHANGED authVars
    /\ pc[p] = "u_findById"
    /\ LET found == findById(store, ObjectIdOf(op[p].id)) IN
        IF found = {}
        THEN Finish(p, OrganisationNotFoundError)
        ELSE \E organisation \in found :
                Goto(p,
                     IF slugChanged(op[p].input, organisation)
                     THEN "u_findBySlug" ELSE "u_stamp",
                     [organisation |-> loaded(organisation)])
    /\ UNCHANGED <<store, nextId, clock, deletes>>

UpdateFindBySlug(p) ==
    /\ UNCHANGED authVars
    /\ pc[p] = "u_findBySlug"
    /\ LET found == findBySlug(store, normaliseSlug(op[p].input.slug)) IN
        IF found = {}
        THEN Goto(p, "u_stamp", loc[p])
        ELSE \E existing \in found :
                IF updateSlugTaken(existing, loc[p].organisation)
                THEN Finish(p, OrganisationSlugTakenError)
                ELSE Goto(p, "u_stamp", loc[p])
    /\ UNCHANGED <<store, nextId, clock, deletes>>

\* payload.updatedAt = new Date(), read when the last find has returned
UpdateStamp(p, tmax) ==
    /\ UNCHANGED authVars
    /\ pc[p] = "u_stamp"
    /\ \E now \in DateNow(tmax) :
        /\ clock' = now
        /\ Goto(p, "u_updateById",
                [organisation |-> loc[p].organisation,
                 payload |-> withUpdatedAt(updatePayload(op[p].input), now)])
    /\ UNCHANGED <<store, nextId, deletes>>

UpdateUpdateById(p) ==
    /\ UNCHANGED authVars
    /\ pc[p] = "u_updateById"
    /\ LET id == loc[p].organisation._id IN
        /\ store' = updateById(store, id, loc[p].payload)
        /\ IF findById(store', id) = {}
           THEN Finish(p, OrganisationNotFoundError)
           ELSE Finish(p, Ok(toOrganisationResponse(store'[id])))
    /\ UNCHANGED <<nextId, clock, deletes>>

----------------------------------------------------------------------------
(* OrganisationService.getById and OrganisationService.delete *)

GetByIdCall(p) ==
    /\ UNCHANGED authVars
    /\ Admitted(p, "GET /:id")
    /\ \E id \in IdStrings :
        LET call == [kind |-> "getById", id |-> id] IN
        IF ObjectIdIsValid(id)
        THEN Begin(p, call, "g_findById", NoLoc)
        ELSE Reject(p, call, InvalidOrganisationIdError)
    /\ UNCHANGED <<store, nextId, clock, deletes>>

GetByIdFindById(p) ==
    /\ UNCHANGED authVars
    /\ pc[p] = "g_findById"
    /\ LET found == findById(store, ObjectIdOf(op[p].id)) IN
        IF found = {}
        THEN Finish(p, OrganisationNotFoundError)
        ELSE \E organisation \in found :
                Finish(p, Ok(toOrganisationResponse(organisation)))
    /\ UNCHANGED <<store, nextId, clock, deletes>>

DeleteCall(p) ==
    /\ UNCHANGED authVars
    /\ Admitted(p, "DELETE /:id")
    /\ \E id \in IdStrings :
        LET call == [kind |-> "delete", id |-> id] IN
        IF ObjectIdIsValid(id)
        THEN Begin(p, call, "d_deleteById", NoLoc)
        ELSE Reject(p, call, InvalidOrganisationIdError)
    /\ UNCHANGED <<store, nextId, clock, deletes>>

DeleteDeleteById(p) ==
    /\ UNCHANGED authVars
    /\ pc[p] = "d_deleteById"
    /\ LET id == ObjectIdOf(op[p].id) IN
        /\ store' = deleteById(store, id)
        /\ IF deletedCount(store, id) = 1
           THEN /\ Finish(p, OkVoid)
                /\ deletes' = [deletes EXCEPT ![id] = @ + 1]
           ELSE /\ Finish(p, OrganisationNotFoundError)
                /\ UNCHANGED deletes
    /\ UNCHANGED <<nextId, clock>>

----------------------------------------------------------------------------
(* OrganisationService.list *)

\* list's argument: a record with the status, or without when it is undefined
ListFilters(statuses) == {<<>>} \cup [status : statuses]

ListCall(p, statuses) ==
    /\ UNCHANGED authVars
    /\ Admitted(p, "GET /")
    /\ \E filter \in ListFilters(statuses) :
        Begin(p, [kind |-> "list", filter |-> filter], "l_findAll", NoLoc)
    /\ UNCHANGED <<store, nextId, clock, deletes>>

ListFindAll(p) ==
    /\ UNCHANGED authVars
    /\ pc[p] = "l_findAll"
    /\ \E organisations \in findAll(store, op[p].filter) :
        Finish(p, Ok([k \in DOMAIN organisations |->
                        toOrganisationResponse(organisations[k])]))
    /\ UNCHANGED <<store, nextId, clock, deletes>>

----------------------------------------------------------------------------
(* The organisation store under concurrent requests *)

OrgInit ==
    /\ store = <<>>
    /\ nextId = 1
    /\ clock = 0
    /\ pc = [p \in Reqs |-> "idle"]
    /\ op = [p \in Reqs |-> NoOp]
    /\ loc = [p \in Reqs |-> NoLoc]
    /\ ret = NoRet
    /\ deletes = [i \in Oids |-> 0]
    /\ http = [p \in Reqs |-> Direct]

----------------------------------------------------------------------------
(* The users collection and the validated environment *)

Null == <<"null">>

\* bcrypt: a hash is made from one password and matches only that password
bcryptHash(password) == <<"$2a$10$", password>>

bcryptCompare(password, passwordHash) == passwordHash = bcryptHash(password)

UserStatuses == {"active", "inactive", "invited", "suspended"}

\* the first user carries every optional reference, the second none
FirstUser(status) ==
    [_id |-> 1, email |-> <<"u", "x">>, passwordHash |-> bcryptHash("p"),
     status |-> status, orgId |-> 7, roleId |-> 8, designationId |-> 9,
     mobileNumber |-> <<"+", "1">>]

SecondUser(email, status) ==
    [_id |-> 2, email |-> email, passwordHash |-> bcryptHash("q"),
     status |-> status]

SecondEmails == {<<"U", "x">>, <<"v", "x">>}

UserStores ==
    {[i \in {1} |-> FirstUser(s)] : s \in UserStatuses}
        \cup {[i \in {1, 2} |-> IF i = 1 THEN FirstUser(s[1]) ELSE SecondUser(e, s[2])] :
                s \in UserStatuses \X UserStatuses, e \in SecondEmails}

\* envSchema: each of the four is a non-empty string, nothing more
Configs ==
    [JWT_ACCESS_SECRET : {"k1"},
     JWT_REFRESH_SECRET : {"k1", "k2"},
     JWT_ACCESS_TTL : {"15m"},
     JWT_REFRESH_TTL : {"15m", "7d"}]

LoginBodies ==
    [email : {<<"u", "x">>, <<"U", "x">>, <<"u", "X">>, <<" ", "u", "x">>,
              <<"u", ".">>, <<"w", "x">>},
     password : {"p", "q", "bad"}]

SessionIds == {"uuid1", "uuid2"}

----------------------------------------------------------------------------
(* The case-insensitive lookup: new RegExp(`^${escapeForRegex(v)}$`, 'i') *)

RegexSpecials == {".", "*", "+", "?", "^", "$", "{", "}", "(", ")", "|", "[", "]", "\\"}

\* a pattern made of the value as it is
escapeForRegex_None(value) == value

\* value.replace(/[.*+?^${}()|[\]\\]/g, '\\$&')
RECURSIVE escapeForRegex(_)
escapeForRegex(value) ==
    IF value = <<>> THEN <<>>
    ELSE (IF Head(value) \in RegexSpecials THEN <<"\\", Head(value)>> ELSE <<Head(value)>>)
            \o escapeForRegex(Tail(value))

\* the pattern's atoms: an escaped character is that character, a bare dot is
\* any character
RECURSIVE regexAtoms(_)
regexAtoms(source) ==
    IF source = <<>> THEN <<>>
    ELSE IF Head(source) = "\\" /\ Len(source) >= 2
         THEN <<[any |-> FALSE, char |-> source[2]]>> \o regexAtoms(Tail(Tail(source)))
         ELSE <<[any |-> Head(source) = ".", char |-> Head(source)]>>
                \o regexAtoms(Tail(source))

\* /^source$/i.test(s)
regexTestAnchoredIgnoreCase(source, s) ==
    LET atoms == regexAtoms(source) IN
    /\ Len(atoms) = Len(s)
    /\ \A i \in 1..Len(s) :
        atoms[i].any \/ toLowerCaseChar(atoms[i].char) = toLowerCaseChar(s[i])

\* findOne({ email: trimmedEmail })
findByEmail(us, email) == {us[i] : i \in {j \in DOMAIN us : us[j].email = email}}

\* findOne({ email: /^...$/i })
findByEmailIgnoreCase(us, trimmedEmail) ==
    {us[i] : i \in {j \in DOMAIN us :
        regexTestAnchoredIgnoreCase(escapeForRegex(trimmedEmail), us[j].email)}}

----------------------------------------------------------------------------
(* The token signer registered by jwtPlugin *)

\* fastify.jwt.sign(payload, options): the plugin's secret and expiresIn
\* unless the options give a key or an expiresIn
jwtSign(payload, options) ==
    [payload |-> payload,
     key |-> IF Has(options, "key") THEN options.key ELSE config.JWT_ACCESS_SECRET,
     expiresIn |-> IF Has(options, "expiresIn") THEN options.expiresIn
                   ELSE config.JWT_ACCESS_TTL]

\* The Authorization header of a request: none, or a token that was signed
\* with some key, that may have been altered since, and that may be presented
\* after its expiry.
NoBearer == [present |-> FALSE]

Bearer(token, tampered, expired) ==
    [present |-> TRUE, token |-> token, tampered |-> tampered, expired |-> expired]

\* a verification that does not look at the expiry
jwtVerify_NoExpiry(bearer) ==
    /\ bearer.present
    /\ ~bearer.tampered
    /\ bearer.token.key = config.JWT_ACCESS_SECRET

\* request.jwtVerify(): there is a token, its signature is the one the
\* plugin's secret gives for its content, and it has not expired
jwtVerify(bearer) ==
    /\ bearer.present
    /\ ~bearer.tampered
    /\ bearer.token.key = config.JWT_ACCESS_SECRET
    /\ ~bearer.expired

----------------------------------------------------------------------------
(* POST /auth/login *)

NoUser == [_id |-> 0]
NoReply == [statusCode |-> 0]

unauthorized(message) ==
    [statusCode |-> 401, error |-> "Unauthorized", message |-> message]

forbidden(message) ==
    [statusCode |-> 403, error |-> "Forbidden", message |-> message]

InvalidEmailOrPassword == <<"Invalid email or password">>

UserIs(status) == <<"User is ", status>>

hexOrNull(user, f) == IF Has(user, f) THEN toHexString(user[f]) ELSE Null

basePayload(user, sessionId) ==
    [sub |-> toHexString(user._id),
     email |-> user.email,
     orgId |-> hexOrNull(user, "orgId"),
     roleId |-> hexOrNull(user, "roleId"),
     designationId |-> hexOrNull(user, "designationId"),
     sessionId |-> sessionId]

withTokenType(payload, tokenType) ==
    [f \in DOMAIN payload \cup {"tokenType"} |->
        IF f = "tokenType" THEN tokenType ELSE payload[f]]

accessTokenOf(user, sessionId) ==
    jwtSign(withTokenType(basePayload(user, sessionId), "access"), <<>>)

\* a refresh token signed like the access token, with the plugin's defaults
refreshTokenOf_Defaults(user, sessionId) ==
    jwtSign(withTokenType(basePayload(user, sessionId), "refresh"), <<>>)

refreshTokenOf(user, sessionId) ==
    jwtSign(withTokenType(basePayload(user, sessionId), "refresh"),
            [expiresIn |-> config.JWT_REFRESH_TTL, key |-> config.JWT_REFRESH_SECRET])

loginReply(user, accessToken, refreshToken, loginTime) ==
    [statusCode |-> 200,
     accessToken |-> accessToken,
     refreshToken |-> refreshToken,
     user |-> [id |-> toHexString(user._id),
               email |-> user.email,
               status |-> user.status,
               orgId |-> hexOrNull(user, "orgId"),
               roleId |-> hexOrNull(user, "roleId"),
               designationId |-> hexOrNull(user, "designationId"),
               mobileNumber |-> IF Has(user, "mobileNumber")
                                THEN user.mobileNumber ELSE Null,
               lastLoginAt |-> toISOString(loginTime)]]

\* a stamp that sets lastLoginAt and leaves updatedAt as it was
stampLogin_LastLoginOnly(us, id, loginTime) ==
    IF id \in DOMAIN us
    THEN [us EXCEPT ![id] = applySet(@, [lastLoginAt |-> loginTime])]
    ELSE us

\* updateOne({ _id }, { $set: { lastLoginAt, updatedAt } })
stampLogin(us, id, loginTime) ==
    IF id \in DOMAIN us
    THEN [us EXCEPT ![id] = applySet(@, [lastLoginAt |-> loginTime,
                                          updatedAt |-> loginTime])]
    ELSE us

\* the replies of the two failures that must not be told apart
userNotFoundReply == unauthorized(InvalidEmailOrPassword)

wrongPasswordReply == unauthorized(InvalidEmailOrPassword)

\* a login that accepts every password
passwordRejected_Never(password, user) == FALSE

passwordRejected(password, user) == ~bcryptCompare(password, user.passwordHash)

\* a status check that turns away suspended users only
statusRejected_SuspendedOnly(user) == user.status = "suspended"

statusRejected(user) == user.status # "active"

\* the status check made before the password check
loginCheck_StatusFirst(password, user) ==
    IF statusRejected(user) THEN "forbidden"
    ELSE IF passwordRejected(password, user) THEN "unauthorized"
    ELSE "ok"

\* what follows bcrypt.compare: the password check, then the status check
loginCheck(password, user) ==
    IF passwordRejected(password, user) THEN "unauthorized"
    ELSE IF statusRejected(user) THEN "forbidden"
    ELSE "ok"

NoLloc == [loginTime |-> 0]

LoginEndpoint == "POST /auth/login"

\* the login handler is called directly or by its route
LoginAdmitted ==
    \/ \A p \in Reqs : http[p] = Direct
    \/ \E p \in Reqs : http[p].stage = "handler" /\ http[p].endpoint = LoginEndpoint

LoginReply(reply) ==
    /\ lpc' = "done"
    /\ lres' = reply
    /\ http' = [p \in Reqs |->
                IF http[p].stage = "service" /\ http[p].endpoint = LoginEndpoint
                THEN NoHttp ELSE http[p]]

LoginCall(bodies) ==
    /\ UNCHANGED <<store, nextId, clock, pc, op, loc, ret, deletes>>
    /\ lpc \in {"idle", "done"}
    /\ LoginAdmitted
    /\ http' = [p \in Reqs |->
                IF http[p].stage = "handler" /\ http[p].endpoint = LoginEndpoint
                THEN InService(http[p]) ELSE http[p]]
    /\ \E body \in bodies : lreq' = body
    /\ lpc' = "l_findExact"
    /\ luser' = NoUser
    /\ lloc' = NoLloc
    /\ lres' = NoReply
    /\ lwrites' = 0
    /\ UNCHANGED <<users, config>>

LoginFindExact ==
    /\ UNCHANGED <<store, nextId, clock, pc, op, loc, ret, deletes>>
    /\ lpc = "l_findExact"
    /\ LET trimmedEmail == trim(lreq.email)
           found == findByEmail(users, trimmedEmail) IN
        IF found # {}
        THEN /\ \E user \in found : luser' = user
             /\ lpc' = "l_compare"
             /\ UNCHANGED <<lres, http>>
        ELSE IF trimmedEmail # <<>>
        THEN /\ lpc' = "l_findIgnoreCase"
             /\ UNCHANGED <<luser, lres, http>>
        ELSE /\ LoginReply(userNotFoundReply)
             /\ UNCHANGED luser
    /\ UNCHANGED <<users, config, lreq, lloc, lwrites>>

LoginFindIgnoreCase ==
    /\ UNCHANGED <<store, nextId, clock, pc, op, loc, ret, deletes>>
    /\ lpc = "l_findIgnoreCase"
    /\ LET found == findByEmailIgnoreCase(users, trim(lreq.email)) IN
        IF found # {}
        THEN /\ \E user \in found : luser' = user
             /\ lpc' = "l_compare"
             /\ UNCHANGED <<lres, http>>
        ELSE /\ LoginReply(userNotFoundReply)
             /\ UNCHANGED luser
    /\ UNCHANGED <<users, config, lreq, lloc, lwrites>>

\* bcrypt.compare has returned: the checks, then the tokens are signed
LoginCompare ==
    /\ UNCHANGED <<store, nextId, pc, op, loc, ret, deletes>>
    /\ lpc = "l_compare"
    /\ LET check == loginCheck(lreq.password, luser) IN
        IF check = "unauthorized"
        THEN /\ LoginReply(wrongPasswordReply)
             /\ UNCHANGED <<clock, lloc>>
        ELSE IF check = "forbidden"
        THEN /\ LoginReply(forbidden(UserIs(luser.status)))
             /\ UNCHANGED <<clock, lloc>>
        ELSE \E loginTime \in DateNow(MaxClock), sessionId \in SessionIds :
             /\ clock' = loginTime
             /\ lloc' = [loginTime |-> loginTime,
                         accessToken |-> accessTokenOf(luser, sessionId),
                         refreshToken |-> refreshTokenOf(luser, sessionId)]
             /\ lpc' = "l_updateOne"
             /\ UNCHANGED <<lres, http>>
    /\ UNCHANGED <<users, config, lreq, luser, lwrites>>

\* the await of updateOne, then the reply
LoginUpdateOne ==
    /\ UNCHANGED <<store, nextId, clock, pc, op, loc, ret, deletes>>
    /\ lpc = "l_updateOne"
    /\ users' = stampLogin(users, luser._id, lloc.loginTime)
    /\ lwrites' = lwrites + 1
    /\ LoginReply(loginReply(luser, lloc.accessToken, lloc.refreshToken,
                             lloc.loginTime))
    /\ UNCHANGED <<config, lreq, luser, lloc>>

AuthIdle ==
    /\ users \in UserStores
    /\ config \in Configs
    /\ lpc = "idle"
    /\ lreq = [email |-> <<>>, password |-> ""]
    /\ luser = NoUser
    /\ lloc = NoLloc
    /\ lres = NoReply
    /\ lwrites = 0

----------------------------------------------------------------------------
(* The routes: /organisations behind the authenticate hook, /auth/login     *)

OrganisationEndpoints == {"GET /", "GET /:id", "POST /", "PATCH /:id", "DELETE /:id"}

\* the onRequest option of each route
onRequestHooks(endpoint) ==
    IF endpoint \in OrganisationEndpoints THEN {"authenticate"} ELSE {}

\* authenticate: reply.unauthorized() when jwtVerify throws
UnauthorizedError ==
    [kind |-> "Unauthorized", statusCode |-> 401, error |-> "Unauthorized",
     message |-> "Unauthorized"]

\* createOrganisationSchema.parse(body): name and code are required, and the
\* keys the schema does not name are dropped
createOrganisationSchemaParses(body) == Has(body, "name") /\ Has(body, "code")

createOrganisationSchemaParse(body) ==
    [f \in {"name", "code", "status"} |->
        IF f = "status" /\ ~Has(body, "status") THEN "active" ELSE body[f]]

\* updateOrganisationSchema.parse(body): every key is optional, and the keys
\* the schema does not name are dropped
updateOrganisationSchemaParse(body) ==
    [f \in DOMAIN body \cap {"name", "code", "status"} |-> body[f]]

ZodError == [kind |-> "ZodError", message |-> "Required"]

\* a mapping that reports a taken slug as a bad request
mapServiceError_ConflictAs400(error) ==
    CASE error.kind \in {"InvalidId", "SlugTaken"} ->
            [statusCode |-> 400, error |-> "Bad Request", message |-> error.message]
      [] error.kind = "NotFound" ->
            [statusCode |-> 404, error |-> "Not Found", message |-> error.message]
      [] OTHER -> error

\* mapServiceError: the http error thrown for a service error; any other error
\* is thrown again as it is
mapServiceError(error) ==
    CASE error.kind = "InvalidId" ->
            [statusCode |-> 400, error |-> "Bad Request", message |-> error.message]
      [] error.kind = "NotFound" ->
            [statusCode |-> 404, error |-> "Not Found", message |-> error.message]
      [] error.kind = "SlugTaken" ->
            [statusCode |-> 409, error |-> "Conflict", message |-> error.message]
      [] OTHER -> error

\* the reply to an error a handler throws: its statusCode, or 500 without one
errorReply(error) ==
    IF Has(error, "statusCode")
    THEN [statusCode |-> error.statusCode, error |-> error.error,
          message |-> error.message]
    ELSE [statusCode |-> 500, error |-> "Internal Server Error",
          message |-> error.message]

\* GET /: { data: organisations, count: organisations.length }
listReply(organisations) ==
    [statusCode |-> 200,
     body |-> [data |-> organisations, count |-> Len(organisations)]]

\* the reply of the route to the request whose hook or handler has returned r
routeReply(r) ==
    IF r.at = "onRequest" THEN errorReply(r.outcome)
    ELSE IF r.outcome.kind # "ok" THEN errorReply(mapServiceError(r.outcome))
    ELSE CASE r.call.kind = "list" -> listReply(r.outcome.view)
           [] r.call.kind = "create" -> [statusCode |-> 201, body |-> r.outcome.view]
           [] r.call.kind = "delete" -> [statusCode |-> 204]
           [] OTHER -> [statusCode |-> 200, body |-> r.outcome.view]

\* requests are interchangeable: the lowest vacant one takes the next request
Vacant(p) == http[p] = NoHttp /\ \A q \in Reqs : q < p => http[q] # NoHttp

InFlight == {q \in Reqs : http[q] # NoHttp}

\* a request arrives, when the one before it has been replied to, and its
\* route's onRequest hooks run
OnRequest(p, endpoints, bearers) ==
    /\ UNCHANGED authVars
    /\ Vacant(p)
    /\ InFlight = {}
    /\ \E endpoint \in endpoints, bearer \in bearers :
        IF "authenticate" \in onRequestHooks(endpoint) /\ ~jwtVerify(bearer)
        THEN /\ ret' = Returned(p, [kind |-> "http", endpoint |-> endpoint,
                                     bearer |-> bearer],
                                "onRequest", UnauthorizedError)
             /\ UNCHANGED http
        ELSE /\ http' = [http EXCEPT ![p] = [stage |-> "handler",
                                              endpoint |-> endpoint,
                                              bearer |-> bearer]]
             /\ ret' = NoRet
    /\ UNCHANGED <<store, nextId, clock, pc, op, loc, deletes>>

\* POST /: createOrganisationSchema.parse(request.body) throws
PostParseThrows(p, bodies) ==
    /\ UNCHANGED authVars
    /\ http[p].stage = "handler"
    /\ http[p].endpoint = "POST /"
    /\ \E body \in bodies :
        /\ ~createOrganisationSchemaParses(body)
        /\ ret' = Returned(p, [kind |-> "http", endpoint |-> "POST /",
                                body |-> body],
                           "handler", ZodError)
    /\ http' = [http EXCEPT ![p] = NoHttp]
    /\ UNCHANGED <<store, nextId, clock, pc, op, loc, deletes>>

----------------------------------------------------------------------------
(* The specifications *)

\* one configuration and one user store for the organisation requests
Init ==
    /\ OrgInit
    /\ AuthIdle
    /\ users = [i \in {1} |-> FirstUser("active")]
    /\ config = [JWT_ACCESS_SECRET |-> "k1", JWT_REFRESH_SECRET |-> "k2",
                 JWT_ACCESS_TTL |-> "15m", JWT_REFRESH_TTL |-> "7d"]

\* Spec: concurrent requests whose inputs vary in the slug
SlugCreateInputs == CreateInputs({<<" ", "n", " ">>}, SlugInputs, {})
SlugUpdateInputs == UpdateInputs({}, SlugInputs, {})

Next ==
    \E p \in Reqs :
        \/ CreateCall(p, SlugCreateInputs, MaxClock)
        \/ CreateFindBySlug(p)
        \/ CreateInsert(p)
        \/ UpdateCall(p, SlugUpdateInputs)
        \/ UpdateFindById(p)
        \/ UpdateFindBySlug(p)
        \/ UpdateStamp(p, MaxClock)
        \/ UpdateUpdateById(p)
        \/ GetByIdCall(p)
        \/ GetByIdFindById(p)
        \/ DeleteCall(p)
        \/ DeleteDeleteById(p)

Spec == Init /\ [][Next]_vars

\* FieldSpec: concurrent creates and updates whose inputs vary in every field
FieldCreateInputs == CreateInputs({<<" ", "n">>}, {<<"a">>}, {"inactive"})

FieldUpdateInputs ==
    UpdateInputs({<<"m", " ">>}, {}, {"inactive"}) \cup [slug : {<<" ", "B">>}]

FieldNext ==
    \E p \in Reqs :
        \/ CreateCall(p, FieldCreateInputs, MaxClock)
        \/ CreateFindBySlug(p)
        \/ CreateInsert(p)
        \/ UpdateCall(p, FieldUpdateInputs)
        \/ UpdateFindById(p)
        \/ UpdateFindBySlug(p)
        \/ UpdateStamp(p, MaxClock)
        \/ UpdateUpdateById(p)

FieldSpec == Init /\ [][FieldNext]_vars

\* RouteSpec: requests over HTTP, one at a time, against a store of two
\* organisations: what the hook, the handlers and the error mapping do is
\* decided request by request.  The
\* bodies are those the routes' body schemas let through: name, slug and
\* status, every other key removed.  None of them has the code that
\* createOrganisationSchema requires, so POST / ends where its body is parsed,
\* and the input PATCH /:id passes on has lost its slug.
SeedOrganisation(id, name, slug, status, at) ==
    [_id |-> id, name |-> name, slug |-> slug, status |-> status,
     createdAt |-> at, updatedAt |-> at]

SeedStores ==
    {[i \in {1, 2} |->
        IF i = 1 THEN SeedOrganisation(1, <<"n">>, <<"a">>, "active", 0)
        ELSE SeedOrganisation(2, <<"m">>, <<"b">>, status, at)] :
            status \in {"archived"}, at \in {0, 1}}

RouteClockMax == MaxClock + 1

RouteConfigs == {c \in Configs : c.JWT_REFRESH_TTL = "7d"}

PresentedTokens ==
    {accessTokenOf(users[1], "uuid1"),
     refreshTokenOf(users[1], "uuid1"),
     [accessTokenOf(users[1], "uuid1") EXCEPT !.key = "k0"]}

\* no token; each token as it was signed and in time; the access token
\* altered, and the access token past its expiry
RouteBearers ==
    {NoBearer}
        \cup {Bearer(token, FALSE, FALSE) : token \in PresentedTokens}
        \cup {Bearer(accessTokenOf(users[1], "uuid1"), TRUE, FALSE),
              Bearer(accessTokenOf(users[1], "uuid1"), FALSE, TRUE)}

RouteCreateBodies == CreateInputs({<<"n">>}, {<<"c">>}, {"inactive"})

RouteUpdateBodies == UpdateInputs({<<" ", "k">>}, {<<"b">>}, {"archived"})

RouteUpdateInputs == {updateOrganisationSchemaParse(body) : body \in RouteUpdateBodies}

RouteLoginBodies == [email : {<<"u", "x">>, <<"U", "x">>}, password : {"p"}]

RouteInit ==
    /\ store \in SeedStores
    /\ nextId = 3
    /\ clock = 1
    /\ pc = [p \in Reqs |-> "idle"]
    /\ op = [p \in Reqs |-> NoOp]
    /\ loc = [p \in Reqs |-> NoLoc]
    /\ ret = NoRet
    /\ deletes = [i \in Oids |-> 0]
    /\ http = [p \in Reqs |-> NoHttp]
    /\ AuthIdle
    /\ users = [i \in {1} |-> FirstUser("active")]
    /\ config \in RouteConfigs

RouteNext ==
    \/ \E p \in Reqs :
        \/ OnRequest(p, OrganisationEndpoints \cup {LoginEndpoint}, RouteBearers)
        \/ PostParseThrows(p, RouteCreateBodies)
        \/ UpdateCall(p, RouteUpdateInputs)
        \/ UpdateFindById(p)
        \/ UpdateStamp(p, RouteClockMax)
        \/ UpdateUpdateById(p)
        \/ GetByIdCall(p)
        \/ GetByIdFindById(p)
        \/ DeleteCall(p)
        \/ DeleteDeleteById(p)
        \/ ListCall(p, {"active", "archived"})
        \/ ListFindAll(p)
    \/ LoginCall(RouteLoginBodies)
    \/ LoginFindExact
    \/ LoginFindIgnoreCase
    \/ LoginCompare
    \/ LoginUpdateOne

RouteSpec == RouteInit /\ [][RouteNext]_vars

\* LoginSpec: logins, one at a time, over every user store and configuration
LoginInit == OrgInit /\ AuthIdle

LoginNext ==
    \/ LoginCall(LoginBodies)
    \/ LoginFindExact
    \/ LoginFindIgnoreCase
    \/ LoginCompare
    \/ LoginUpdateOne

LoginSpec == LoginInit /\ [][LoginNext]_vars

\* SerialSpec: service calls one at a time, from an empty store: a call starts
\* when every call before it has returned
NoCallRunning == \A q \in Reqs : pc[q] = "idle"

SerialSlugInputs == SlugInputs \cup {<<"B", " ">>}
SerialCreateInputs == CreateInputs({<<" ", "n", " ">>}, SerialSlugInputs, {})
SerialUpdateInputs == UpdateInputs({<<"m">>}, SerialSlugInputs, {})

SerialNext ==
    \E p \in Reqs :
        \/ NoCallRunning /\ CreateCall(p, SerialCreateInputs, MaxClock)
        \/ CreateFindBySlug(p)
        \/ CreateInsert(p)
        \/ NoCallRunning /\ UpdateCall(p, SerialUpdateInputs)
        \/ UpdateFindById(p)
        \/ UpdateFindBySlug(p)
        \/ UpdateStamp(p, MaxClock)
        \/ UpdateUpdateById(p)
        \/ NoCallRunning /\ DeleteCall(p)
        \/ DeleteDeleteById(p)

SerialSpec == Init /\ [][SerialNext]_vars

\* DisjointSpec: concurrent updates of which each supplies the name alone or
\* the status alone, on organisations created without a status
DisjointCreateInputs == CreateInputs({<<"n">>}, {<<"a">>}, {})

DisjointUpdateInputs == [name : {<<"m", " ">>}] \cup [status : {"inactive"}]

DisjointNext ==
    \E p \in Reqs :
        \/ CreateCall(p, DisjointCreateInputs, MaxClock)
        \/ CreateFindBySlug(p)
        \/ CreateInsert(p)
        \/ UpdateCall(p, DisjointUpdateInputs)
        \/ UpdateFindById(p)
        \/ UpdateStamp(p, MaxClock)
        \/ UpdateUpdateById(p)

DisjointSpec == Init /\ [][DisjointNext]_vars

----------------------------------------------------------------------------
(* Properties of the organisation service *)

\* the call that returned in the step into this state
ReturnedFrom(kinds) == ret.kind = "returned" /\ ret.call.kind \in kinds

\* request p returns in this step
Returns(p) == ret'.kind = "returned" /\ ret'.p = p

\* the slug a stored record holds when x is supplied: trimmed and lowercased
TrimLower(x) == toLowerCase(trim(x))

SlugHeld(st, slug) == \E i \in DOMAIN st : st[i].slug = slug

\* C1: in every reachable state, also under interleaved concurrent create and
\* update requests, no two stored organisations have the same slug.
C1_SlugsUnique ==
    \A i, j \in DOMAIN store : i # j => store[i].slug # store[j].slug

\* C2: a create whose findBySlug runs while some stored organisation has the
\* trimmed, lowercased input slug fails with SlugTaken, inserts no record and
\* changes no record.
C2_CreateSlugTaken ==
    [][\A p \in Reqs :
        (/\ pc[p] = "c_findBySlug"
         /\ pc'[p] # "c_findBySlug"
         /\ SlugHeld(store, TrimLower(op[p].input.slug)))
        => (/\ Returns(p)
            /\ ret'.call = op[p]
            /\ ret'.outcome = OrganisationSlugTakenError
            /\ store' = store
            /\ nextId' = nextId)]_vars

\* "Acme" after "acme": the input differs from the stored slug it collides with
C2_Witness ==
    /\ ReturnedFrom({"create"})
    /\ ret.outcome.kind = "SlugTaken"
    /\ ret.call.input.slug = <<" ", "A">>
    /\ SlugHeld(store, <<"a">>)

\* C3: after a create that succeeds, the returned view's slug and the stored
\* record's slug are the trimmed, lowercased input slug, and the stored name is
\* the trimmed input name.
C3_CreateNormalises ==
    (ReturnedFrom({"create"}) /\ ret.outcome.kind = "ok") =>
        LET view == ret.outcome.view
            input == ret.call.input
            id == ObjectIdOf(view.id)
        IN  /\ view.slug = TrimLower(input.slug)
            /\ id \in DOMAIN store
            /\ store[id].slug = TrimLower(input.slug)
            /\ store[id].name = trim(input.name)

C3_Witness ==
    /\ ReturnedFrom({"create"})
    /\ ret.outcome.kind = "ok"
    /\ ret.call.input.slug = <<" ", "A">>
    /\ ret.outcome.view.slug = <<"a">>
    /\ ret.call.input.name # ret.outcome.view.name

\* C4: an update whose supplied slug trims and lowercases to the slug of the
\* record it loaded never fails with SlugTaken, whatever else is stored and
\* whatever the other requests do.
C4_SameSlugNeverTaken ==
    [][\A p \in Reqs :
        (/\ pc[p] \in {"u_findBySlug", "u_stamp", "u_updateById"}
         /\ Has(op[p].input, "slug")
         /\ TrimLower(op[p].input.slug) = loc[p].organisation.slug)
        => ~(Returns(p) /\ ret'.outcome.kind = "SlugTaken")]_vars

\* the update resubmits its own slug in another casing while another record
\* holds the same slug, and has passed the point of the uniqueness check
C4_Witness ==
    \E p \in Reqs :
        /\ pc[p] = "u_updateById"
        /\ Has(op[p].input, "slug")
        /\ op[p].input.slug = <<" ", "A">>
        /\ loc[p].organisation.slug = <<"a">>
        /\ \E i \in DOMAIN store :
            i # loc[p].organisation._id /\ store[i].slug = <<"a">>

\* C5: an update that changes the slug to a value a different stored
\* organisation holds when findBySlug runs fails with SlugTaken and leaves
\* every stored record unchanged.
C5_ChangedSlugTaken ==
    [][\A p \in Reqs :
        (/\ pc[p] = "u_findBySlug"
         /\ pc'[p] # "u_findBySlug"
         /\ \E i \in DOMAIN store :
                /\ i # loc[p].organisation._id
                /\ store[i].slug = TrimLower(op[p].input.slug))
        => (/\ Returns(p)
            /\ ret'.outcome = OrganisationSlugTakenError
            /\ store' = store)]_vars

\* C6: getById, update and delete with a malformed id return InvalidId from the
\* call itself, before any repository step, and leave the store alone; with a
\* well-formed id that is not stored they return NotFound; InvalidId is
\* returned for no well-formed id and NotFound for no malformed one.
IdCalls == {"getById", "update", "delete"}

C6_InvalidIdOrNotFound ==
    [][\A p \in Reqs :
        /\ (Returns(p) /\ ret'.call.kind \in IdCalls /\ ret'.call.id = MalformedId)
            => (/\ ret'.outcome = [kind |-> "InvalidId",
                                   message |-> "Invalid organisation id"]
                /\ pc[p] = "idle"
                /\ pc'[p] = "idle"
                /\ store' = store)
        /\ (Returns(p) /\ ret'.call.kind \in IdCalls /\ ret'.call.id # MalformedId)
            => (/\ ret'.outcome.kind # "InvalidId"
                /\ pc[p] # "idle")
        /\ (/\ pc[p] \in {"g_findById", "u_findById", "u_updateById", "d_deleteById"}
            /\ pc'[p] # pc[p]
            /\ ObjectIdOf(op[p].id) \notin DOMAIN store)
            => (/\ Returns(p)
                /\ ret'.outcome.kind = "NotFound"
                /\ store' = store)]_vars

C6_Witness ==
    /\ ReturnedFrom({"update"})
    /\ ret.call.id = MalformedId
    /\ ret.outcome.kind = "InvalidId"
    /\ store # <<>>

\* C7: a delete of a stored organisation succeeds and removes that record
\* alone; a delete of an id that is not stored returns NotFound and changes
\* nothing; an id once deleted is never stored again, and of all the deletes of
\* one id, concurrent or not, exactly one succeeds.
C7_DeleteOnce ==
    [][/\ \A p \in Reqs :
            (pc[p] = "d_deleteById" /\ pc'[p] # "d_deleteById") =>
                LET id == ObjectIdOf(op[p].id) IN
                /\ Returns(p)
                /\ IF id \in DOMAIN store
                   THEN /\ ret'.outcome.kind = "ok"
                        /\ DOMAIN store' = DOMAIN store \ {id}
                        /\ \A j \in DOMAIN store' : store'[j] = store[j]
                   ELSE /\ ret'.outcome.kind = "NotFound"
                        /\ store' = store
       /\ \A i \in Oids :
            /\ deletes'[i] <= 1
            /\ deletes'[i] = 1 <=> (i < nextId' /\ i \notin DOMAIN store')]_vars

\* of two concurrent deletes of one id the first has succeeded, leaving the
\* other record, and the second is still to reach the store
C7_Witness ==
    /\ ReturnedFrom({"delete"})
    /\ ret.outcome.kind = "ok"
    /\ store # <<>>
    /\ \E q \in Reqs :
        /\ q # ret.p
        /\ pc[q] = "d_deleteById"
        /\ op[q].id = ret.call.id

----------------------------------------------------------------------------
(* Properties of login *)

KnownUser == luser._id # 0

PasswordMatches == luser.passwordHash = bcryptHash(lreq.password)

\* C8: a login that ends because no user matched the email and a login that
\* ends because the password is wrong get the same reply, 401 with the message
\* 'Invalid email or password', whatever the matched user's status.
C8_SameUnauthorized ==
    (lpc = "done" /\ (~KnownUser \/ ~PasswordMatches)) =>
        lres = [statusCode |-> 401, error |-> "Unauthorized",
                message |-> <<"Invalid email or password">>]

\* a known user who is not active, with a wrong password
C8_Witness ==
    /\ lpc = "done"
    /\ KnownUser
    /\ ~PasswordMatches
    /\ luser.status = "suspended"
    /\ lres.statusCode = 401

\* C9: a login replies 200 only for an active user; with the right password
\* and a status other than active the reply is 403 with that status in its
\* message, it carries no token, and the user record is not written.
C9_OnlyActiveLogsIn ==
    /\ lres.statusCode = 200 => (KnownUser /\ users[luser._id].status = "active")
    /\ (lpc = "done" /\ KnownUser /\ PasswordMatches /\ luser.status # "active") =>
        /\ lres = [statusCode |-> 403, error |-> "Forbidden",
                   message |-> <<"User is ", luser.status>>]
        /\ ~Has(lres, "accessToken")
        /\ ~Has(lres, "refreshToken")
        /\ lwrites = 0
        /\ users[luser._id] = luser

C9_Witness ==
    /\ lpc = "done"
    /\ KnownUser
    /\ PasswordMatches
    /\ luser.status = "invited"
    /\ lres.statusCode = 403

\* C10: the two tokens of a successful login carry the same subject (the
\* user's id), email, tenant, role and designation ids and session id; the
\* access token is of kind access under the access secret and TTL, the refresh
\* token of kind refresh under the refresh secret and TTL.
C10_TokenPair ==
    lres.statusCode = 200 =>
        LET a == lres.accessToken
            r == lres.refreshToken
        IN  /\ a.payload.sub = toHexString(luser._id)
            /\ a.payload.email = luser.email
            /\ \A f \in {"sub", "email", "orgId", "roleId", "designationId", "sessionId"} :
                a.payload[f] = r.payload[f]
            /\ a.payload.sessionId \in SessionIds
            /\ a.payload.tokenType = "access"
            /\ r.payload.tokenType = "refresh"
            /\ a.key = config.JWT_ACCESS_SECRET
            /\ a.expiresIn = config.JWT_ACCESS_TTL
            /\ r.key = config.JWT_REFRESH_SECRET
            /\ r.expiresIn = config.JWT_REFRESH_TTL

\* a login under a configuration whose two secrets and two TTLs differ
C10_Witness ==
    /\ lres.statusCode = 200
    /\ config.JWT_ACCESS_SECRET # config.JWT_REFRESH_SECRET
    /\ config.JWT_ACCESS_TTL # config.JWT_REFRESH_TTL
    /\ lres.accessToken.key # lres.refreshToken.key

\* C11: the step that completes a successful login is the only step of a login
\* that writes the users collection; it is that login's one write, it sets the
\* matched user's lastLoginAt and updatedAt to the instant read from the clock,
\* which is the instant the reply gives as user.lastLoginAt, and changes
\* nothing else; a login that replies 401 or 403 has written nothing.
C11_OneWritePerLogin ==
    [][/\ (lpc = "l_updateOne" /\ lpc' = "done") =>
            /\ lres'.statusCode = 200
            /\ lwrites = 0
            /\ lwrites' = 1
            /\ lloc.loginTime = clock
            /\ lres'.user.lastLoginAt = <<"iso", lloc.loginTime>>
            /\ DOMAIN users' = DOMAIN users
            /\ \A i \in DOMAIN users \ {luser._id} : users'[i] = users[i]
            /\ LET before == users[luser._id]
                   after == users'[luser._id]
               IN  /\ DOMAIN after = DOMAIN before \cup {"lastLoginAt", "updatedAt"}
                   /\ after.lastLoginAt = lloc.loginTime
                   /\ after.updatedAt = lloc.loginTime
                   /\ \A f \in DOMAIN before \ {"lastLoginAt", "updatedAt"} :
                        after[f] = before[f]
       /\ (lpc # "done" /\ lpc' = "done" /\ lres'.statusCode # 200) =>
            /\ lres'.statusCode \in {401, 403}
            /\ lwrites' = 0
            /\ users' = users
       /\ users' # users => lpc = "l_updateOne"
       /\ lres'.statusCode = 200 => (lpc \in {"l_updateOne", "done"} /\ lwrites' = 1)]_vars

\* the second of two stored users has logged in at a later instant than the
\* initial one, and was stamped with it
C11_Witness ==
    /\ lpc = "done"
    /\ lres.statusCode = 200
    /\ lwrites = 1
    /\ luser._id = 2
    /\ lloc.loginTime = 1
    /\ users[2].lastLoginAt = 1
    /\ users[2].updatedAt = 1
    /\ lres.user.lastLoginAt = <<"iso", 1>>

\* C17: a login is replied 403 only when the submitted password is the matched
\* user's; a user who is not active and submits a wrong password is replied
\* 401 with the message of a failed login, whatever the status.
C17_StatusAfterPassword ==
    /\ lres.statusCode = 403 =>
        (/\ KnownUser
         /\ luser.passwordHash = <<"$2a$10$", lreq.password>>
         /\ luser.status # "active")
    /\ (lpc = "done" /\ KnownUser /\ luser.status # "active"
            /\ luser.passwordHash # <<"$2a$10$", lreq.password>>) =>
        (/\ lres.statusCode = 401
         /\ lres.error = "Unauthorized"
         /\ lres.message # <<"User is ", luser.status>>)

\* an invited user with the password of another user
C17_Witness ==
    /\ lpc = "done"
    /\ KnownUser
    /\ luser.status = "invited"
    /\ lreq.password = "q"
    /\ luser.passwordHash = <<"$2a$10$", "p">>
    /\ lres.statusCode = 401

\* the stored users whose email is the trimmed email of the request, and
\* those whose email is that email up to letter case
ExactUsers == {i \in DOMAIN users : users[i].email = trim(lreq.email)}

CaseVariantUsers ==
    {i \in DOMAIN users : toLowerCase(users[i].email) = toLowerCase(trim(lreq.email))}

\* C20: the user a login goes on with has exactly the trimmed email of the
\* request whenever some stored user has it; otherwise the trimmed email is
\* not empty and the user's email is that email up to letter case; the
\* case-insensitive lookup is made only after the exact one found nothing,
\* and a login ends without a user only if neither lookup could find one.
\* When no stored user has exactly the trimmed email and one stored user
\* alone has it up to letter case, is active and has the password submitted,
\* the login succeeds as that user.
C20_ExactThenIgnoreCase ==
    /\ lpc = "l_findIgnoreCase" => (ExactUsers = {} /\ trim(lreq.email) # <<>>)
    /\ (lpc \in {"l_compare", "l_updateOne", "done"} /\ KnownUser) =>
        IF ExactUsers # {}
        THEN luser._id \in ExactUsers
        ELSE trim(lreq.email) # <<>> /\ luser._id \in CaseVariantUsers
    /\ (lpc = "done" /\ ~KnownUser) => CaseVariantUsers = {}
    /\ (lpc = "done" /\ ExactUsers = {}) =>
        \A i \in CaseVariantUsers :
            (/\ CaseVariantUsers = {i}
             /\ users[i].status = "active"
             /\ users[i].passwordHash = <<"$2a$10$", lreq.password>>)
            => (/\ lres.statusCode = 200
                /\ lres.user.id = <<"hex", i>>)

\* a login under an email in another casing than the stored one has succeeded
C20_Witness ==
    /\ lpc = "done"
    /\ lres.statusCode = 200
    /\ ExactUsers = {}
    /\ lreq.email = <<"u", "X">>
    /\ luser.email = <<"u", "x">>
    /\ Cardinality(DOMAIN users) = 2

\* C20 as stated, for the logins the exact lookup finds no user for: a login
\* whose email differs only in letter case from the email of a stored active
\* user, with that user's password, succeeds.
C20_CaseVariantSucceeds ==
    (lpc = "done" /\ ExactUsers = {}) =>
        \A i \in CaseVariantUsers :
            (/\ users[i].status = "active"
             /\ users[i].passwordHash = <<"$2a$10$", lreq.password>>)
            => lres.statusCode = 200

----------------------------------------------------------------------------
(* Properties of the organisation service under concurrent deletes *)

\* the record request p loaded is no longer stored
LoadedGone(p) ==
    /\ pc[p] \in {"u_findBySlug", "u_stamp", "u_updateById"}
    /\ loc[p].organisation._id \notin DOMAIN store

C16_CheckThenWrite ==
    [][\A p \in Reqs :
        /\ (pc[p] \in {"c_findBySlug", "u_findBySlug"} /\ pc'[p] # pc[p])
            => store' = store
        /\ (pc[p] = "c_create" /\ pc'[p] # pc[p])
            => (/\ Returns(p)
                /\ ret'.outcome.kind = "ok"
                /\ nextId \in DOMAIN store'
                /\ store'[nextId].slug = loc[p].slug
                /\ \A i \in DOMAIN store : store'[i] = store[i])
        /\ (/\ pc[p] = "u_updateById"
            /\ pc'[p] # pc[p]
            /\ loc[p].organisation._id \in DOMAIN store)
            => (/\ Returns(p)
                /\ ret'.outcome.kind = "ok"
                /\ "slug" \in DOMAIN loc[p].payload
                    => store'[loc[p].organisation._id].slug = loc[p].payload.slug)]_vars

\* request q has passed its check for a slug and is at its write
AtWrite(q, kind, slug) ==
    \/ kind = "create" /\ pc[q] = "c_create" /\ loc[q].slug = slug
    \/ /\ kind = "update"
       /\ pc[q] = "u_updateById"
       /\ "slug" \in DOMAIN loc[q].payload
       /\ loc[q].payload.slug = slug
       /\ loc[q].organisation.slug # slug
       /\ loc[q].organisation._id \in DOMAIN store

\* a request of kind first has just succeeded in writing a slug that a
\* concurrent request of kind second, past its own check, is about to write
Raced(first, second) ==
    /\ ReturnedFrom({first})
    /\ ret.at \in {"c_create", "u_updateById"}
    /\ ret.outcome.kind = "ok"
    /\ "slug" \in DOMAIN ret.call.input
    /\ \E q \in Reqs :
        /\ q # ret.p
        /\ AtWrite(q, second, ret.outcome.view.slug)
        /\ second = "update" => <<"hex", loc[q].organisation._id>> # ret.outcome.view.id

\* create/update: a create has succeeded with the slug a concurrent update of
\* another record is about to write
C16_Witness == Raced("create", "update")

C16_WitnessCreateCreate == Raced("create", "create")

C16_WitnessUpdateCreate == Raced("update", "create")

C16_WitnessUpdateUpdate == Raced("update", "update")

\* C23: the identities stored change only in the step of a create that
\* succeeds, which adds one identity never stored before, and in the step of a
\* delete that succeeds, which removes the one it names; every successful
\* create and delete does so.  No step of an update changes them, so an update
\* that races with a delete of its record leaves it deleted, and an identity
\* once deleted is not stored again.
C23_IdentitiesByCreateAndDelete ==
    [][/\ DOMAIN store' # DOMAIN store =>
            \E p \in Reqs :
                /\ Returns(p)
                /\ ret'.outcome.kind = "ok"
                /\ \/ /\ pc[p] = "c_create"
                      /\ nextId \notin DOMAIN store
                      /\ deletes[nextId] = 0
                      /\ \A i \in DOMAIN store : i < nextId
                      /\ nextId' > nextId
                      /\ DOMAIN store' = DOMAIN store \cup {nextId}
                   \/ /\ pc[p] = "d_deleteById"
                      /\ op[p].id[2] \in DOMAIN store
                      /\ DOMAIN store' = DOMAIN store \ {op[p].id[2]}
       /\ \A p \in Reqs :
            /\ (Returns(p) /\ ret'.call.kind = "create" /\ ret'.outcome.kind = "ok")
                => Cardinality(DOMAIN store') = Cardinality(DOMAIN store) + 1
            /\ (Returns(p) /\ ret'.call.kind = "delete" /\ ret'.outcome.kind = "ok")
                => Cardinality(DOMAIN store') = Cardinality(DOMAIN store) - 1
            /\ (pc[p] \in {"u_findById", "u_findBySlug", "u_stamp", "u_updateById"}
                    /\ pc'[p] # pc[p])
                => DOMAIN store' = DOMAIN store
       /\ \A i \in Oids : deletes[i] >= 1 => i \notin DOMAIN store']_vars

\* an update that had loaded its record has reached its find-and-update after
\* a concurrent delete of the record succeeded, and has returned: the record
\* is still gone, and the other record is stored
C23_Witness ==
    /\ ReturnedFrom({"update"})
    /\ ret.at = "u_updateById"
    /\ deletes[ObjectIdOf(ret.call.id)] = 1
    /\ ObjectIdOf(ret.call.id) \notin DOMAIN store
    /\ Cardinality(DOMAIN store) = 1
    /\ nextId = 3

----------------------------------------------------------------------------
(* Properties of the records create and update write *)

\* C18: the find-and-update of an update whose record is stored succeeds; it
\* replaces the name by the trimmed input name, the slug by the trimmed and
\* lowercased input slug and the status by the input status, each only if the
\* input supplies it, and sets updatedAt to the instant the update read from
\* the clock, also when the input is empty; _id, createdAt, the fields not
\* supplied and the other records stay as stored, and the view returned is
\* that of the record as it is stored after the write.
C18_UpdateFrame ==
    [][\A p \in Reqs :
        /\ (pc[p] = "u_stamp" /\ pc'[p] = "u_updateById")
            => (/\ "updatedAt" \in DOMAIN loc'[p].payload
                /\ loc'[p].payload.updatedAt = clock'
                /\ clock' >= clock)
        /\ (/\ pc[p] = "u_updateById"
            /\ pc'[p] # pc[p]
            /\ loc[p].organisation._id \in DOMAIN store)
            => LET id == loc[p].organisation._id
                   input == op[p].input
                   before == store[id]
                   after == store'[id]
               IN  /\ Returns(p)
                   /\ ret'.outcome.kind = "ok"
                   /\ DOMAIN store' = DOMAIN store
                   /\ \A j \in DOMAIN store \ {id} : store'[j] = store[j]
                   /\ "updatedAt" \in DOMAIN loc[p].payload
                   /\ after =
                        [_id |-> id,
                         name |-> IF "name" \in DOMAIN input
                                  THEN trim(input.name) ELSE before.name,
                         slug |-> IF "slug" \in DOMAIN input
                                  THEN TrimLower(input.slug) ELSE before.slug,
                         status |-> IF "status" \in DOMAIN input
                                    THEN input.status ELSE before.status,
                         createdAt |-> before.createdAt,
                         updatedAt |-> loc[p].payload.updatedAt]
                   /\ ret'.outcome.view =
                        [id |-> <<"hex", id>>,
                         name |-> after.name,
                         slug |-> after.slug,
                         status |-> after.status,
                         createdAt |-> <<"iso", after.createdAt>>,
                         updatedAt |-> <<"iso", after.updatedAt>>]]_vars

\* an update with an empty input has returned: only updatedAt moved, on a
\* record an earlier update had renamed, while another record is stored
C18_Witness ==
    /\ ReturnedFrom({"update"})
    /\ ret.outcome.kind = "ok"
    /\ ret.call.input = <<>>
    /\ ret.outcome.view.name = <<"m">>
    /\ ret.outcome.view.createdAt = <<"iso", 0>>
    /\ ret.outcome.view.updatedAt = <<"iso", 1>>
    /\ Cardinality(DOMAIN store) = 2

\* C19: the record a create inserts has the input status, or active when the
\* input has none, and createdAt and updatedAt both equal to the instant the
\* create read from the clock when it was called; the view returned shows the
\* same.
C19_CreateDefaults ==
    [][\A p \in Reqs :
        /\ (pc[p] = "idle" /\ pc'[p] = "c_findBySlug") => loc'[p].now = clock'
        /\ (pc[p] = "c_create" /\ pc'[p] # pc[p])
            => (/\ nextId \notin DOMAIN store
                /\ nextId \in DOMAIN store'
                /\ LET doc == store'[nextId]
                       input == op[p].input
                   IN  /\ doc.status = (IF "status" \in DOMAIN input
                                        THEN input.status ELSE "active")
                       /\ doc.createdAt = loc[p].now
                       /\ doc.updatedAt = doc.createdAt
                       /\ Returns(p)
                       /\ ret'.outcome.kind = "ok"
                       /\ ret'.outcome.view.status = doc.status
                       /\ ret'.outcome.view.createdAt = <<"iso", doc.createdAt>>
                       /\ ret'.outcome.view.updatedAt = <<"iso", doc.createdAt>>)]_vars

\* a create without a status, after one with a status
C19_Witness ==
    /\ ReturnedFrom({"create"})
    /\ ret.outcome.kind = "ok"
    /\ "status" \notin DOMAIN ret.call.input
    /\ ret.outcome.view.status = "active"
    /\ ret.outcome.view.createdAt = <<"iso", 1>>
    /\ ret.outcome.view.updatedAt = <<"iso", 1>>
    /\ \E i \in DOMAIN store : store[i].status = "inactive" /\ store[i].createdAt = 0

----------------------------------------------------------------------------
(* Properties of the routes *)

\* the bearer is a token signed with the access secret, unaltered, in time
Verifies(bearer) ==
    /\ bearer # [present |-> FALSE]
    /\ bearer.tampered = FALSE
    /\ bearer.expired = FALSE
    /\ bearer.token.key = config.JWT_ACCESS_SECRET

\* C13: a request to an organisation endpoint reaches its handler, and a
\* service call runs for it, only if its bearer token verifies against the
\* access secret, and the call is the one of its endpoint; a request whose
\* token is missing, altered, expired or signed with another key is replied
\* 401 by the hook in a step that starts no service call and leaves the store
\* as it is.  The login route has no hook: the login handler takes a request
\* whatever its bearer.
C13_AuthenticatedOnly ==
    [][/\ \A p \in Reqs :
            /\ (/\ http'[p].stage \in {"handler", "service"}
                /\ http'[p].endpoint # "POST /auth/login")
                => (/\ http'[p].endpoint \in {"GET /", "GET /:id", "POST /",
                                               "PATCH /:id", "DELETE /:id"}
                    /\ Verifies(http'[p].bearer))
            /\ pc'[p] # "idle"
                => (/\ http'[p].stage = "service"
                    /\ http'[p].endpoint =
                            (CASE op'[p].kind = "list" -> "GET /"
                               [] op'[p].kind = "getById" -> "GET /:id"
                               [] op'[p].kind = "create" -> "POST /"
                               [] op'[p].kind = "update" -> "PATCH /:id"
                               [] op'[p].kind = "delete" -> "DELETE /:id"))
            /\ (Returns(p) /\ ret'.at = "onRequest")
                => (/\ ~Verifies(ret'.call.bearer)
                    /\ ret'.call.endpoint # "POST /auth/login"
                    /\ routeReply(ret').statusCode = 401
                    /\ http[p].stage = "none"
                    /\ http'[p].stage = "none"
                    /\ pc' = pc
                    /\ store' = store)
       /\ store' # store => \E p \in Reqs : pc[p] # "idle" /\ Verifies(http[p].bearer)
       /\ (lpc' = "l_findExact" /\ lpc # "l_findExact")
            => \E p \in Reqs : /\ http[p].stage = "handler"
                                /\ http[p].endpoint = "POST /auth/login"
                                /\ http'[p].stage = "service"]_vars

\* a delete with an expired token is replied 401 and has deleted nothing,
\* after a delete with a good token went through, and after a login
C13_Witness ==
    /\ ret.kind = "returned"
    /\ ret.at = "onRequest"
    /\ ret.call.endpoint = "DELETE /:id"
    /\ ret.call.bearer.present
    /\ ret.call.bearer.expired
    /\ routeReply(ret).statusCode = 401
    /\ deletes[1] = 1
    /\ 2 \in DOMAIN store
    /\ lres.statusCode = 200

\* C14: the reply to InvalidId is 400, to NotFound 404 and to SlugTaken 409,
\* each with the error's message; an error of another kind is thrown on as it
\* is and is replied with none of the three.  So is every error reply a route
\* sends: 400, 404 or 409 exactly for the three kinds.
DomainStatus(kind) ==
    CASE kind = "InvalidId" -> 400
      [] kind = "NotFound" -> 404
      [] kind = "SlugTaken" -> 409
      [] OTHER -> 500

DomainErrors ==
    {[kind |-> "InvalidId", message |-> "Invalid organisation id"],
     [kind |-> "NotFound", message |-> "Organisation not found"],
     [kind |-> "SlugTaken", message |-> "Organisation slug already exists"]}

OtherErrors ==
    {[kind |-> "ZodError", message |-> "Required"],
     [kind |-> "MongoServerError", message |-> "connection closed"],
     [kind |-> "TypeError", message |-> "undefined"]}

C14_ErrorStatuses ==
    /\ \A e \in DomainErrors :
        /\ errorReply(mapServiceError(e)).statusCode = DomainStatus(e.kind)
        /\ errorReply(mapServiceError(e)).message = e.message
    /\ \A e \in OtherErrors :
        /\ mapServiceError(e) = e
        /\ errorReply(mapServiceError(e)).statusCode \notin {400, 404, 409}
    /\ (ret.kind = "returned" /\ ret.at # "onRequest" /\ ret.outcome.kind # "ok")
        => (/\ routeReply(ret).statusCode = DomainStatus(ret.outcome.kind)
            /\ routeReply(ret).message = ret.outcome.message)

\* a get of a deleted organisation is replied 404
C14_Witness ==
    /\ ReturnedFrom({"getById"})
    /\ ret.outcome.kind = "NotFound"
    /\ routeReply(ret).statusCode = 404
    /\ deletes[ObjectIdOf(ret.call.id)] = 1

\* C15: the views a list returns are those of exactly the stored organisations
\* that have the status asked for, or of all of them when none is asked for,
\* each once, with no view before one of a later createdAt; the reply of
\* GET / is 200 with these views as data and their number as count.
C15_ListFiltered ==
    (ReturnedFrom({"list"}) /\ ret.outcome.kind = "ok") =>
        LET views == ret.outcome.view
            filter == ret.call.filter
            wanted == {i \in DOMAIN store :
                        "status" \in DOMAIN filter => store[i].status = filter.status}
        IN  /\ {views[k].id : k \in DOMAIN views} = {<<"hex", i>> : i \in wanted}
            /\ Len(views) = Cardinality(wanted)
            /\ \A k \in DOMAIN views :
                LET doc == store[views[k].id[2]] IN
                views[k] = [id |-> <<"hex", doc._id>>, name |-> doc.name,
                            slug |-> doc.slug, status |-> doc.status,
                            createdAt |-> <<"iso", doc.createdAt>>,
                            updatedAt |-> <<"iso", doc.updatedAt>>]
            /\ \A k, l \in DOMAIN views :
                k < l => views[k].createdAt[2] >= views[l].createdAt[2]
            /\ routeReply(ret).statusCode = 200
            /\ routeReply(ret).body.data = views
            /\ routeReply(ret).body.count = Cardinality(wanted)

\* a list by status that leaves one of two organisations out, and a list of
\* two organisations created at different instants, the later one first
C15_Witness ==
    /\ ReturnedFrom({"list"})
    /\ ret.call.filter = [status |-> "archived"]
    /\ Cardinality(DOMAIN store) = 2
    /\ store[1].status = "archived"
    /\ store[1].createdAt < store[2].createdAt
    /\ Len(ret.outcome.view) = 2
    /\ ret.outcome.view[1].id = <<"hex", 2>>
    /\ routeReply(ret).body.count = 2

\* C22: under every configuration the environment validation accepts, no
\* request that presents the refresh token a login has issued gets past the
\* authenticate hook of an organisation endpoint.
C22_RefreshTokenRejected ==
    \A p \in Reqs :
        (/\ http[p].stage \in {"handler", "service"}
         /\ http[p].endpoint \in {"GET /", "GET /:id", "POST /", "PATCH /:id",
                                  "DELETE /:id"}
         /\ lres.statusCode = 200)
        => http[p].bearer.token # lres.refreshToken

\* the same, under the configurations whose two secrets differ
C22_RejectedUnderDistinctSecrets ==
    config.JWT_ACCESS_SECRET # config.JWT_REFRESH_SECRET => C22_RefreshTokenRejected

----------------------------------------------------------------------------
(* Properties of concurrent updates of one organisation *)

\* an update of organisation i that supplied field f has just succeeded
UpdatedField(i, f) ==
    /\ ret.kind = "returned"
    /\ ret.call.kind = "update"
    /\ ret.outcome.kind = "ok"
    /\ ret.call.id = <<"hex", i>>
    /\ f \in DOMAIN ret.call.input

\* C24: of the concurrent updates of one organisation, each supplying the
\* name alone or the status alone, every one takes effect whatever the
\* interleaving: from the moment an update of the name has succeeded the
\* record holds the new name, from the moment an update of the status has
\* succeeded it holds the new status, so once both have, it holds both.
C24_DisjointUpdatesBothHold ==
    \A i \in Oids :
        /\ [](UpdatedField(i, "name")
                => [](i \in DOMAIN store /\ store[i].name = <<"m">>))
        /\ [](UpdatedField(i, "status")
                => [](i \in DOMAIN store /\ store[i].status = "inactive"))

\* the update of the status has returned after the update of the name took
\* effect: the record and the view returned show both new values
C24_Witness ==
    /\ UpdatedField(1, "status")
    /\ ret.call.input = [status |-> "inactive"]
    /\ store[1].name = <<"m">>
    /\ store[1].status = "inactive"
    /\ ret.outcome.view.name = <<"m">>
    /\ ret.outcome.view.status = "inactive"
    /\ \E q \in Reqs : q # ret.p /\ pc[q] = "idle"

\* C25: in no step, whatever the interleaving of the concurrent updates, does
\* the stored updatedAt of an organisation become earlier than it was, or
\* earlier than the organisation's createdAt.
C25_UpdatedAtMonotone ==
    [][\A i \in DOMAIN store' :
        /\ store'[i].updatedAt >= store'[i].createdAt
        /\ i \in DOMAIN store => store'[i].updatedAt >= store[i].updatedAt]_vars

\* the part of it that does not depend on the order of the writes: no stored
\* updatedAt is earlier than the record's createdAt
C25_NotBeforeCreatedAt ==
    \A i \in DOMAIN store : store[i].updatedAt >= store[i].createdAt

----------------------------------------------------------------------------
(* Properties of the store under service calls made one at a time *)

\* C21: when the calls run one at a time from an empty store, after any
\* sequence of create, update and delete calls, and at every step within one,
\* no two stored organisations have the same slug and every stored slug is its
\* own trimmed, lowercased form.
C21_SerialSlugs ==
    /\ \A i, j \in DOMAIN store : i # j => store[i].slug # store[j].slug
    /\ \A i \in DOMAIN store : store[i].slug = toLowerCase(trim(store[i].slug))
    /\ Cardinality({q \in Reqs : pc[q] # "idle"}) <= 1

\* after two creates and a delete, an update has given the remaining record
\* the slug of the deleted one, supplied in another casing
C21_Witness ==
    /\ ReturnedFrom({"update"})
    /\ ret.outcome.kind = "ok"
    /\ "slug" \in DOMAIN ret.call.input
    /\ ret.call.input.slug = <<" ", "A">>
    /\ ret.outcome.view.slug = <<"a">>
    /\ ret.outcome.view.id = <<"hex", 2>>
    /\ deletes[1] = 1
    /\ DOMAIN store = {2}
    /\ store[2].slug = <<"a">>

====
